---- MODULE Spec2Model ----
(***************************************************************************)
(* ORT (typescript/src): the value model (value.ts), the parser            *)
(* (parser.ts) and the generator (second half of value.ts).                *)
(*                                                                         *)
(* Text is a sequence of one-character strings, a line list a sequence of  *)
(* texts.  A value (_value of an OrtValue) is a record with the same six   *)
(* fields for every tag:                                                   *)
(*   t = "null" | "bool" | "num" | "str" | "arr" | "obj"                   *)
(*   b  the boolean payload, n the number payload (integers only),         *)
(*   s  the string payload (a text), a the elements of an array or the     *)
(*   values of an object, k the keys of an object, in Object.keys order.   *)
(***************************************************************************)
EXTENDS Integers, Sequences, FiniteSets, TLC

VARIABLES
    lines, lineIdx, result, pc, ret, err,   \* parseOrt's locals and outcome
    val, out,                               \* an OrtValue and the outcome of the last get/set
    str, esc, unesc, tpc,                   \* escape / unescape of a string
    parts, arr, pairList,                   \* the three splitting loops on a text
    v0, text, parsed, regen, phase,         \* generate / parse round trip
    heap, handles, receiver                 \* several OrtValues and the objects they hold

vars == <<lines, lineIdx, result, pc, ret, err, val, out,
          str, esc, unesc, tpc, parts, arr, pairList, v0, text, parsed, regen, phase,
          heap, handles, receiver>>

-----------------------------------------------------------------------------
(* Bounds of the model *)

MaxLines == 3
MaxStrLen == 3
MaxSplitLen == 5
MaxIndex == 2
MaxArrLen == 2
MaxValues == 3
MaxCells == 3

-----------------------------------------------------------------------------
(* Text helpers: the String.prototype methods the code uses *)

WS == {" ", "\t", "\n", "\r"}

Digits == <<"0", "1", "2", "3", "4", "5", "6", "7", "8", "9">>

IsDigit(c) == \E i \in 1..10 : Digits[i] = c

DigitVal(c) == (CHOOSE i \in 1..10 : Digits[i] = c) - 1

RECURSIVE trimStart(_)
trimStart(s) ==
    IF s = <<>> THEN s
    ELSE IF Head(s) \in WS THEN trimStart(Tail(s)) ELSE s

RECURSIVE trimEnd(_)
trimEnd(s) ==
    IF s = <<>> THEN s
    ELSE IF s[Len(s)] \in WS THEN trimEnd(SubSeq(s, 1, Len(s) - 1)) ELSE s

trim(s) == trimEnd(trimStart(s))

startsWith(s, c) == s # <<>> /\ s[1] = c

endsWith(s, c) == s # <<>> /\ s[Len(s)] = c

includes(s, c) == \E i \in 1..Len(s) : s[i] = c

\* 1-based position of the first c in s, 0 when there is none (JS: -1)
indexOf(s, c) ==
    IF includes(s, c) THEN CHOOSE i \in 1..Len(s) : s[i] = c /\ \A j \in 1..(i - 1) : s[j] # c
    ELSE 0

\* s.substring(from) with a 1-based from
substringFrom(s, from) == SubSeq(s, from, Len(s))

\* s.replace(/:$/, '')
dropTrailingColon(s) == IF endsWith(s, ":") THEN SubSeq(s, 1, Len(s) - 1) ELSE s

RECURSIVE join(_, _)
join(ss, sep) ==
    IF ss = <<>> THEN <<>>
    ELSE IF Len(ss) = 1 THEN ss[1]
    ELSE ss[1] \o sep \o join(Tail(ss), sep)

RECURSIVE concat(_)
concat(ss) == IF ss = <<>> THEN <<>> ELSE Head(ss) \o concat(Tail(ss))

\* s.split(c): the pieces between the occurrences of c (always at least one piece)
RECURSIVE splitOn(_, _)
splitOn(s, c) ==
    LET i == indexOf(s, c) IN
    IF i = 0 THEN <<s>>
    ELSE <<SubSeq(s, 1, i - 1)>> \o splitOn(SubSeq(s, i + 1, Len(s)), c)

-----------------------------------------------------------------------------
(* Numbers: Number(string), isNaN, String(number), over integers.          *)
(* Number() trims white space, reads the empty string as 0 and reads an    *)
(* optionally signed run of decimal digits as its value.  Fractions,       *)
(* exponents, radix prefixes and Infinity are outside the texts the model  *)
(* draws, so every other text is NaN here.                                 *)

RECURSIVE digitsValue(_, _)
digitsValue(s, acc) ==
    IF s = <<>> THEN acc ELSE digitsValue(Tail(s), acc * 10 + DigitVal(Head(s)))

allDigits(s) == s # <<>> /\ \A i \in 1..Len(s) : IsDigit(s[i])

NumberOfTrimmed(t) ==
    IF t = <<>> THEN [nan |-> FALSE, n |-> 0]
    ELSE IF allDigits(t) THEN [nan |-> FALSE, n |-> digitsValue(t, 0)]
    ELSE IF t[1] = "-" /\ allDigits(Tail(t)) THEN [nan |-> FALSE, n |-> 0 - digitsValue(Tail(t), 0)]
    ELSE IF t[1] = "+" /\ allDigits(Tail(t)) THEN [nan |-> FALSE, n |-> digitsValue(Tail(t), 0)]
    ELSE [nan |-> TRUE, n |-> 0]

Number(s) == NumberOfTrimmed(trim(s))

RECURSIVE natToString(_)
natToString(n) ==
    IF n < 10 THEN <<Digits[n + 1]>>
    ELSE natToString(n \div 10) \o <<Digits[(n % 10) + 1]>>

String(n) == IF n < 0 THEN <<"-">> \o natToString(0 - n) ELSE natToString(n)

-----------------------------------------------------------------------------
(* Escaping *)

\* a plausible bug: the backslash itself is not escaped
escapeCharNoBackslash(ch) ==
    IF ch \in {"(", ")", "[", "]", ","} THEN <<"\\", ch>>
    ELSE IF ch = "\n" THEN <<"\\", "n">>
    ELSE IF ch = "\t" THEN <<"\\", "t">>
    ELSE IF ch = "\r" THEN <<"\\", "r">>
    ELSE <<ch>>

escapeChar(ch) ==
    IF ch = "(" THEN <<"\\", "(">>
    ELSE IF ch = ")" THEN <<"\\", ")">>
    ELSE IF ch = "[" THEN <<"\\", "[">>
    ELSE IF ch = "]" THEN <<"\\", "]">>
    ELSE IF ch = "," THEN <<"\\", ",">>
    ELSE IF ch = "\\" THEN <<"\\", "\\">>
    ELSE IF ch = "\n" THEN <<"\\", "n">>
    ELSE IF ch = "\t" THEN <<"\\", "t">>
    ELSE IF ch = "\r" THEN <<"\\", "r">>
    ELSE <<ch>>

RECURSIVE escape(_)
escape(s) == IF s = <<>> THEN <<>> ELSE escapeChar(Head(s)) \o escape(Tail(s))

unescapeChar(ch) ==
    IF ch = "n" THEN "\n"
    ELSE IF ch = "t" THEN "\t"
    ELSE IF ch = "r" THEN "\r"
    ELSE ch

RECURSIVE unescapeFrom(_, _)
unescapeFrom(s, escaped) ==
    IF s = <<>> THEN <<>>
    ELSE IF escaped THEN <<unescapeChar(Head(s))>> \o unescapeFrom(Tail(s), FALSE)
    ELSE IF Head(s) = "\\" THEN unescapeFrom(Tail(s), TRUE)
    ELSE <<Head(s)>> \o unescapeFrom(Tail(s), FALSE)

unescape(s) == unescapeFrom(s, FALSE)

-----------------------------------------------------------------------------
(* Values: OrtValueType and the plain JS objects the code builds *)

VNull == [t |-> "null", b |-> FALSE, n |-> 0, s |-> <<>>, a |-> <<>>, k |-> <<>>]

VBool(x) == [t |-> "bool", b |-> x, n |-> 0, s |-> <<>>, a |-> <<>>, k |-> <<>>]

VNum(x) == [t |-> "num", b |-> FALSE, n |-> x, s |-> <<>>, a |-> <<>>, k |-> <<>>]

VStr(x) == [t |-> "str", b |-> FALSE, n |-> 0, s |-> x, a |-> <<>>, k |-> <<>>]

VArr(xs) == [t |-> "arr", b |-> FALSE, n |-> 0, s |-> <<>>, a |-> xs, k |-> <<>>]

VObj(ks, xs) == [t |-> "obj", b |-> FALSE, n |-> 0, s |-> <<>>, a |-> xs, k |-> ks]

EmptyObj == VObj(<<>>, <<>>)

\* A property name that is an array index ("0", "7", "12"): a JS object lists these
\* first, in ascending numeric order, before its other keys in insertion order.
IsIndexKey(key) == allDigits(key) /\ (Len(key) = 1 \/ key[1] # "0")

keyPos(o, key) ==
    IF \E i \in 1..Len(o.k) : o.k[i] = key
    THEN CHOOSE i \in 1..Len(o.k) : o.k[i] = key
    ELSE 0

\* key in obj
hasKey(o, key) == keyPos(o, key) # 0

\* where a new key goes in the object's key order
insertPos(o, key) ==
    IF IsIndexKey(key)
    THEN 1 + Cardinality({i \in 1..Len(o.k) :
                 IsIndexKey(o.k[i]) /\ digitsValue(o.k[i], 0) < digitsValue(key, 0)})
    ELSE Len(o.k) + 1

insertAt(xs, p, x) == SubSeq(xs, 1, p - 1) \o <<x>> \o SubSeq(xs, p, Len(xs))

\* obj[key] = x
objSet(o, key, x) ==
    LET p == keyPos(o, key) IN
    IF p # 0 THEN [o EXCEPT !.a[p] = x]
    ELSE LET q == insertPos(o, key) IN
         [o EXCEPT !.k = insertAt(o.k, q, key), !.a = insertAt(o.a, q, x)]

\* obj[key] of a key the object has
objGet(o, key) == o.a[keyPos(o, key)]

RECURSIVE normalize(_)
RECURSIVE normalizeEntries(_, _, _)
\* the for-of over Object.entries(value): result[k] = new OrtValue(v)._value
normalizeEntries(v, i, acc) ==
    IF i > Len(v.k) THEN acc
    ELSE normalizeEntries(v, i + 1, objSet(acc, v.k[i], normalize(v.a[i])))

normalize(v) ==
    IF v.t = "arr" THEN VArr([i \in 1..Len(v.a) |-> normalize(v.a[i])])
    ELSE IF v.t = "obj" THEN normalizeEntries(v, 1, EmptyObj)
    ELSE v

createOrtValue(v) == normalize(v)

RECURSIVE toNative(_)
RECURSIVE toNativeEntries(_, _, _)
toNativeEntries(v, i, acc) ==
    IF i > Len(v.k) THEN acc
    ELSE toNativeEntries(v, i + 1, objSet(acc, v.k[i], toNative(v.a[i])))

toNative(v) ==
    IF v.t = "arr" THEN VArr([i \in 1..Len(v.a) |-> toNative(v.a[i])])
    ELSE IF v.t = "obj" THEN toNativeEntries(v, 1, EmptyObj)
    ELSE v

isNull(v) == v.t = "null"

isArray(v) == v.t = "arr"

isObject(v) == v.t = "obj"

\* The argument of get / set: a string or a number (integers only)
KeyStr(s) == [t |-> "string", s |-> s, n |-> 0]

KeyNum(n) == [t |-> "number", s |-> <<>>, n |-> n]

\* The methods every plain object inherits from Object.prototype: "key in obj" is
\* true of them, and obj[key] is then a function
ObjectPrototypeMethods ==
    { <<"t", "o", "S", "t", "r", "i", "n", "g">>,
      <<"v", "a", "l", "u", "e", "O", "f">>,
      <<"c", "o", "n", "s", "t", "r", "u", "c", "t", "o", "r">> }

\* key in obj
keyIn(o, key) == hasKey(o, key) \/ key \in ObjectPrototypeMethods

\* The outcome of a get or set: the class and kind of the error thrown ("none"
\* when the call returns), the value returned, and the _value after the call
Returned(x, v) == [cls |-> "none", msg |-> "none", res |-> x, after |-> v]

Raised(cls, msg, v) == [cls |-> cls, msg |-> msg, res |-> VNull, after |-> v]

get(v, key) ==
    IF key.t = "string"
    THEN IF ~isObject(v)
         THEN Raised("TypeError", "Cannot index non-object with string key", v)
         ELSE IF ~keyIn(v, key.s) THEN Raised("Error", "Key not found", v)
         ELSE IF hasKey(v, key.s) THEN Returned(normalize(objGet(v, key.s)), v)
         ELSE Raised("TypeError", "Unsupported type for OrtValue", v)
    ELSE IF ~isArray(v) THEN Raised("TypeError", "Cannot index non-array with number", v)
    ELSE IF key.n < 0 \/ key.n >= Len(v.a) THEN Raised("Error", "Index out of bounds", v)
    ELSE Returned(normalize(v.a[key.n + 1]), v)

set(v, key, value) ==
    IF key.t = "string"
    THEN IF ~isObject(v) THEN Raised("TypeError", "Cannot set key on non-object", v)
         ELSE Returned(VNull, objSet(v, key.s, normalize(value)))
    ELSE IF ~isArray(v) THEN Raised("TypeError", "Cannot set index on non-array", v)
    ELSE IF key.n < 0 \/ key.n >= Len(v.a) THEN Raised("Error", "Index out of bounds", v)
    ELSE Returned(VNull, [v EXCEPT !.a[key.n + 1] = normalize(value)])

\* obj[key] ?? defaultValue, handed to the constructor: a missing key reads as
\* undefined and a stored null is null, and both give the default; an inherited
\* method is a function, which the constructor rejects
getOrDefaultOf(v, key, defaultValue) ==
    IF hasKey(v, key)
    THEN IF isNull(objGet(v, key)) THEN Returned(normalize(defaultValue), v)
         ELSE Returned(normalize(objGet(v, key)), v)
    ELSE IF key \in ObjectPrototypeMethods
    THEN Raised("TypeError", "Unsupported type for OrtValue", v)
    ELSE Returned(normalize(defaultValue), v)

getOrDefault(v, key, defaultValue) ==
    IF ~isObject(v) THEN Returned(normalize(defaultValue), v)
    ELSE getOrDefaultOf(v, key, defaultValue)

\* JSON.stringify of a string: quoted, with '"', backslash and the control
\* characters escaped
jsonChar(c) ==
    IF c = "\"" THEN <<"\\", "\"">>
    ELSE IF c = "\\" THEN <<"\\", "\\">>
    ELSE IF c = "\n" THEN <<"\\", "n">>
    ELSE IF c = "\t" THEN <<"\\", "t">>
    ELSE IF c = "\r" THEN <<"\\", "r">>
    ELSE <<c>>

jsonString(str0) == <<"\"">> \o concat([i \in 1..Len(str0) |-> jsonChar(str0[i])]) \o <<"\"">>

\* JSON.stringify of a value: the members of an object in Object.keys order
RECURSIVE stringify(_)
stringify(v) ==
    IF v.t = "null" THEN <<"n", "u", "l", "l">>
    ELSE IF v.t = "bool"
    THEN (IF v.b THEN <<"t", "r", "u", "e">> ELSE <<"f", "a", "l", "s", "e">>)
    ELSE IF v.t = "num" THEN String(v.n)
    ELSE IF v.t = "str" THEN jsonString(v.s)
    ELSE IF v.t = "arr"
    THEN <<"[">> \o join([i \in 1..Len(v.a) |-> stringify(v.a[i])], <<",">>) \o <<"]">>
    ELSE <<"{">> \o join([i \in 1..Len(v.k) |->
                             jsonString(v.k[i]) \o <<":">> \o stringify(v.a[i])], <<",">>)
               \o <<"}">>

\* this.equals(other), other being an OrtValue (its _value) or a native value
equals(v, other) == stringify(v) = stringify(other)

-----------------------------------------------------------------------------
(* Parse errors and the outcome of a call that may throw *)

NoErr == [lineNum |-> 0, line |-> <<>>, msg |-> "none", expected |-> 0, got |-> 0]

\* new OrtParseError(lineNum, line, message); the message is its kind and the two
\* counts it prints
OrtParseError(lineNum, line, msg, expected, got) ==
    [lineNum |-> lineNum, line |-> line, msg |-> msg, expected |-> expected, got |-> got]

Ok(x) == [ok |-> TRUE, val |-> x, err |-> NoErr]

Throw(e) == [ok |-> FALSE, val |-> VNull, err |-> e]

-----------------------------------------------------------------------------
(* Splitting on top-level commas: the scan loop shared by parseDataValues,  *)
(* parseArray and splitPairs.  An operator named ...Of or ...With is the   *)
(* rest of the function before it, taking the value of a local of that     *)
(* function as its last parameter.                                         *)

RECURSIVE splitScan(_, _, _, _, _, _, _)
splitScan(s, i, escaped, depth, bracketDepth, current, values) ==
    IF i > Len(s) THEN values \o <<current>>
    ELSE IF escaped
    THEN splitScan(s, i + 1, FALSE, depth, bracketDepth, Append(current, s[i]), values)
    ELSE IF s[i] = "\\"
    THEN splitScan(s, i + 1, TRUE, depth, bracketDepth, Append(current, "\\"), values)
    ELSE IF s[i] = "("
    THEN splitScan(s, i + 1, FALSE, depth + 1, bracketDepth, Append(current, s[i]), values)
    ELSE IF s[i] = ")"
    THEN splitScan(s, i + 1, FALSE, depth - 1, bracketDepth, Append(current, s[i]), values)
    ELSE IF s[i] = "["
    THEN splitScan(s, i + 1, FALSE, depth, bracketDepth + 1, Append(current, s[i]), values)
    ELSE IF s[i] = "]"
    THEN splitScan(s, i + 1, FALSE, depth, bracketDepth - 1, Append(current, s[i]), values)
    ELSE IF s[i] = ","
    THEN IF depth = 0 /\ bracketDepth = 0
         THEN splitScan(s, i + 1, FALSE, depth, bracketDepth, <<>>, Append(values, current))
         ELSE splitScan(s, i + 1, FALSE, depth, bracketDepth, Append(current, s[i]), values)
    ELSE splitScan(s, i + 1, FALSE, depth, bracketDepth, Append(current, s[i]), values)

\* a plausible bug: a plain split on every comma
parseDataValuesNaive(line, lineNum) == splitOn(line, ",")

parseDataValues(line, lineNum) == splitScan(line, 1, FALSE, 0, 0, <<>>, <<>>)

\* the pieces before the last comma as they are, the last one trimmed and dropped
\* when it is empty
splitPairsLast(front, currentStr) ==
    IF currentStr # <<>> THEN Append(front, currentStr) ELSE front

splitPairsOf(ps) == splitPairsLast(SubSeq(ps, 1, Len(ps) - 1), trim(ps[Len(ps)]))

splitPairs(s) == splitPairsOf(splitScan(s, 1, FALSE, 0, 0, <<>>, <<>>))

-----------------------------------------------------------------------------
(* Generic values *)

RECURSIVE parseValue(_, _, _)
RECURSIVE parseArray(_, _, _)
RECURSIVE parseInlineObject(_, _, _)
RECURSIVE parsePairsFrom(_, _, _, _, _)

\* parseValue from "Try parse as number" on
parseScalarWith(unescaped, num) ==
    IF ~num.nan THEN createOrtValue(VNum(num.n))
    ELSE IF unescaped = <<"t", "r", "u", "e">> THEN createOrtValue(VBool(TRUE))
    ELSE IF unescaped = <<"f", "a", "l", "s", "e">> THEN createOrtValue(VBool(FALSE))
    ELSE createOrtValue(VStr(unescaped))

parseScalarOf(unescaped) == parseScalarWith(unescaped, Number(unescaped))

parseTrimmed(trimmed, line, lineNum) ==
    IF trimmed = <<>> THEN createOrtValue(VNull)
    ELSE IF trimmed = <<"[", "]">> THEN createOrtValue(VArr(<<>>))
    ELSE IF trimmed = <<"(", ")">> THEN createOrtValue(EmptyObj)
    ELSE IF startsWith(trimmed, "[") /\ endsWith(trimmed, "]")
    THEN parseArray(SubSeq(trimmed, 2, Len(trimmed) - 1), line, lineNum)
    ELSE IF startsWith(trimmed, "(") /\ endsWith(trimmed, ")")
    THEN parseInlineObject(SubSeq(trimmed, 2, Len(trimmed) - 1), line, lineNum)
    ELSE parseScalarOf(unescape(trimmed))

parseValue(s, line, lineNum) == parseTrimmed(trim(s), line, lineNum)

\* the element after the last comma: dropped when it trims to nothing
parseArrayLast(front, currentStr, line, lineNum) ==
    IF currentStr # <<>>
    THEN Append(front, toNative(parseValue(currentStr, line, lineNum)))
    ELSE front

parseArrayOf(ps, line, lineNum) ==
    createOrtValue(VArr(parseArrayLast(
        [i \in 1..(Len(ps) - 1) |-> toNative(parseValue(ps[i], line, lineNum))],
        trim(ps[Len(ps)]), line, lineNum)))

parseArray(s, line, lineNum) ==
    IF trim(s) = <<>> THEN createOrtValue(VArr(<<>>))
    ELSE parseArrayOf(splitScan(s, 1, FALSE, 0, 0, <<>>, <<>>), line, lineNum)

\* one pair of an inline object, split at its first colon
parsePair(obj, pair, colonIndex, line, lineNum) ==
    IF colonIndex # 0
    THEN objSet(obj, trim(SubSeq(pair, 1, colonIndex - 1)),
                toNative(parseValue(trim(substringFrom(pair, colonIndex + 1)), line, lineNum)))
    ELSE obj

parsePairsFrom(pairs, i, obj, line, lineNum) ==
    IF i > Len(pairs) THEN obj
    ELSE parsePairsFrom(pairs, i + 1,
                        parsePair(obj, pairs[i], indexOf(pairs[i], ":"), line, lineNum),
                        line, lineNum)

parseInlineObject(s, line, lineNum) ==
    IF trim(s) = <<>> THEN createOrtValue(EmptyObj)
    ELSE createOrtValue(parsePairsFrom(splitPairs(s), 1, EmptyObj, line, lineNum))

-----------------------------------------------------------------------------
(* Header fields *)

createField(name, nestedFields) == [name |-> name, nestedFields |-> nestedFields]

isNestedField(field) == Len(field.nestedFields) > 0

\* the inner while of parseFields: the text up to the parenthesis that closes the
\* group, and the index after it
nestedDepthAfter(ch, nestedDepth) ==
    IF ch = "(" THEN nestedDepth + 1
    ELSE IF ch = ")" THEN nestedDepth - 1
    ELSE nestedDepth

RECURSIVE nestedScan(_, _, _, _)
nestedScan(chars, i, nestedDepth, nestedStr) ==
    IF i <= Len(chars) /\ nestedDepth > 0
    THEN nestedScan(chars, i + 1, nestedDepthAfter(chars[i], nestedDepth),
                    IF nestedDepthAfter(chars[i], nestedDepth) > 0
                    THEN Append(nestedStr, chars[i]) ELSE nestedStr)
    ELSE [str |-> nestedStr, next |-> i]

\* result.push(createField(field)) when the trimmed name is not empty
pushField(res, field) == IF field # <<>> THEN Append(res, createField(field, <<>>)) ELSE res

RECURSIVE parseFields(_, _, _)
RECURSIVE fieldsScan(_, _, _, _, _, _, _)
RECURSIVE fieldsNested(_, _, _, _, _, _, _, _)

\* the '(' branch at depth 0, after the matching ')' was found at nested.next - 1
fieldsNested(chars, next, fieldName, depth, res, line, lineNum, nestedFields) ==
    IF ~nestedFields.ok THEN nestedFields
    ELSE fieldsScan(chars, next, <<>>, depth,
                    Append(res, createField(fieldName, nestedFields.val)), line, lineNum)

fieldsGroup(chars, nested, fieldName, depth, res, line, lineNum) ==
    fieldsNested(chars, nested.next, fieldName, depth, res, line, lineNum,
                 parseFields(nested.str, line, lineNum))

fieldsScan(chars, i, current, depth, res, line, lineNum) ==
    IF i > Len(chars) THEN Ok(pushField(res, trim(current)))
    ELSE IF chars[i] = "("
    THEN IF depth = 0
         THEN fieldsGroup(chars, nestedScan(chars, i + 1, 1, <<>>), trim(current),
                          depth, res, line, lineNum)
         ELSE fieldsScan(chars, i + 1, Append(current, chars[i]), depth + 1, res, line, lineNum)
    ELSE IF chars[i] = ")"
    THEN IF depth - 1 < 0
         THEN Throw(OrtParseError(lineNum, line, "Unmatched closing parenthesis", 0, 0))
         ELSE fieldsScan(chars, i + 1, Append(current, chars[i]), depth - 1, res, line, lineNum)
    ELSE IF chars[i] = ","
    THEN IF depth = 0
         THEN fieldsScan(chars, i + 1, <<>>, depth, pushField(res, trim(current)), line, lineNum)
         ELSE fieldsScan(chars, i + 1, Append(current, chars[i]), depth, res, line, lineNum)
    ELSE fieldsScan(chars, i + 1, Append(current, chars[i]), depth, res, line, lineNum)

parseFields(fieldsStr, line, lineNum) ==
    IF fieldsStr = <<>> THEN Ok(<<>>)
    ELSE fieldsScan(fieldsStr, 1, <<>>, 0, <<>>, line, lineNum)

-----------------------------------------------------------------------------
(* Headers and sections.  Line indexes are 0-based as in the code:         *)
(* lineAt(lines, i) is lines[i].                                           *)

lineAt(ls, i) == ls[i + 1]

\* !line || line.startsWith('#') of a trimmed line
isSkipped(line) == line = <<>> \/ startsWith(line, "#")

\* parts.length >= 2 && parts[parts.length - 1] === ''
lastPartEmpty(ps) == Len(ps) >= 2 /\ ps[Len(ps)] = <<>>

isHeaderTrimmed(trimmed) ==
    IF startsWith(trimmed, ":") THEN TRUE
    ELSE lastPartEmpty(splitOn(trimmed, ":"))

isHeader(line) == isHeaderTrimmed(trim(line))

parseNamedHeader(line, lineNum, colonIndex) ==
    IF colonIndex = 0
    THEN Throw(OrtParseError(lineNum, line, "Invalid header format", 0, 0))
    ELSE Ok([keyNull |-> FALSE, key |-> trim(SubSeq(line, 1, colonIndex - 1)),
             fieldsStr |-> trim(dropTrailingColon(substringFrom(line, colonIndex + 1)))])

parseHeader(line, lineNum) ==
    IF startsWith(line, ":")
    THEN Ok([keyNull |-> TRUE, key |-> <<>>,
             fieldsStr |-> dropTrailingColon(substringFrom(line, 2))])
    ELSE parseNamedHeader(line, lineNum, indexOf(line, ":"))

\* the counting loop of parseSection
RECURSIVE countDataLines(_, _, _)
countLine(ls, i, dataLines, l) ==
    IF isSkipped(l) THEN countDataLines(ls, i + 1, dataLines)
    ELSE IF includes(l, ":") /\ isHeader(l) THEN dataLines
    ELSE countDataLines(ls, i + 1, dataLines + 1)

countDataLines(ls, i, dataLines) ==
    IF i >= Len(ls) THEN dataLines
    ELSE countLine(ls, i, dataLines, trim(lineAt(ls, i)))

sectionOf(header, dataLines, fields) ==
    IF ~fields.ok THEN fields
    ELSE Ok([keyNull |-> header.keyNull, key |-> header.key,
             fields |-> fields.val, dataLines |-> dataLines])

parseSectionHeader(line, lineNum, dataLines, header) ==
    IF ~header.ok THEN header
    ELSE sectionOf(header.val, dataLines, parseFields(header.val.fieldsStr, line, lineNum))

parseSectionLine(ls, startIdx, line, lineNum) ==
    parseSectionHeader(line, lineNum, countDataLines(ls, startIdx + 1, 0),
                       parseHeader(line, lineNum))

parseSection(ls, startIdx) ==
    parseSectionLine(ls, startIdx, trim(lineAt(ls, startIdx)), startIdx + 1)

-----------------------------------------------------------------------------
(* Data lines *)

RECURSIVE parseFieldValue(_, _, _, _)
RECURSIVE fillRecord(_, _, _, _, _, _)
RECURSIVE fillRecordWith(_, _, _, _, _, _, _)

\* for (j...) obj[field.name] = parseFieldValue(field, values[j]).toNative()
fillRecordWith(fields, values, j, obj, line, lineNum, value) ==
    IF ~value.ok THEN value
    ELSE fillRecord(fields, values, j + 1,
                    objSet(obj, fields[j].name, toNative(value.val)), line, lineNum)

fillRecord(fields, values, j, obj, line, lineNum) ==
    IF j > Len(fields) THEN Ok(obj)
    ELSE fillRecordWith(fields, values, j, obj, line, lineNum,
                        parseFieldValue(fields[j], values[j], line, lineNum))

\* return createOrtValue(obj), unless filling obj threw
nestedObject(obj) == IF ~obj.ok THEN obj ELSE Ok(createOrtValue(obj.val))

\* parseFieldValue from the arity check on
parseNestedValues(field, values, line, lineNum) ==
    IF Len(values) # Len(field.nestedFields)
    THEN Throw(OrtParseError(lineNum, line, "Expected nested values",
                             Len(field.nestedFields), Len(values)))
    ELSE nestedObject(fillRecord(field.nestedFields, values, 1, EmptyObj, line, lineNum))

parseNestedTrimmed(field, trimmed, line, lineNum) ==
    IF trimmed = <<>> THEN Ok(createOrtValue(VNull))
    ELSE IF trimmed = <<"(", ")">> THEN Ok(createOrtValue(EmptyObj))
    ELSE IF startsWith(trimmed, "[") /\ endsWith(trimmed, "]")
    THEN Ok(parseValue(trimmed, line, lineNum))
    ELSE IF ~startsWith(trimmed, "(") \/ ~endsWith(trimmed, ")")
    THEN Ok(parseValue(trimmed, line, lineNum))
    ELSE parseNestedValues(field,
                           parseDataValues(SubSeq(trimmed, 2, Len(trimmed) - 1), lineNum),
                           line, lineNum)

parseFieldValue(field, valueStr, line, lineNum) ==
    IF ~isNestedField(field) THEN Ok(parseValue(valueStr, line, lineNum))
    ELSE parseNestedTrimmed(field, trim(valueStr), line, lineNum)

\* a plausible bug: only a row with too few values is refused
parseRowValuesLax(line, lineNum, fields, values) ==
    IF Len(values) < Len(fields)
    THEN Throw(OrtParseError(lineNum, line, "Expected values", Len(fields), Len(values)))
    ELSE fillRecord(fields, values, 1, EmptyObj, line, lineNum)

\* the body of parseDataLines' loop for one data line of a section with fields
parseRowValues(line, lineNum, fields, values) ==
    IF Len(values) # Len(fields)
    THEN Throw(OrtParseError(lineNum, line, "Expected values", Len(fields), Len(values)))
    ELSE fillRecord(fields, values, 1, EmptyObj, line, lineNum)

parseRow(line, lineNum, fields) ==
    parseRowValues(line, lineNum, fields, parseDataValues(line, lineNum))

RECURSIVE dataLinesFrom(_, _, _, _, _, _)
RECURSIVE dataLinesRow(_, _, _, _, _, _, _)
RECURSIVE dataLinesLine(_, _, _, _, _, _, _)

dataLinesRow(ls, i, fields, count, processed, res, obj) ==
    IF ~obj.ok THEN obj
    ELSE dataLinesFrom(ls, i + 1, fields, count, processed + 1, Append(res, obj.val))

dataLinesLine(ls, i, fields, count, processed, res, line) ==
    IF isSkipped(line) THEN dataLinesFrom(ls, i + 1, fields, count, processed, res)
    ELSE IF Len(fields) = 0 THEN Ok(parseValue(line, line, i + 1))
    ELSE dataLinesRow(ls, i, fields, count, processed, res, parseRow(line, i + 1, fields))

dataLinesFrom(ls, i, fields, count, processed, res) ==
    IF i >= Len(ls) \/ processed >= count THEN Ok(createOrtValue(VArr(res)))
    ELSE dataLinesLine(ls, i, fields, count, processed, res, trim(lineAt(ls, i)))

parseDataLines(ls, startIdx, fields, count) ==
    dataLinesFrom(ls, startIdx, fields, count, 0, <<>>)

-----------------------------------------------------------------------------
(* parseOrt: one iteration of its while loop, or the return after it *)

Outcome(kind, p, idx, res, r, e) ==
    [kind |-> kind, pc |-> p, lineIdx |-> idx, result |-> res, ret |-> r, err |-> e]

\* a plausible bug: the single record is not unwrapped
anonymousResultNoUnwrap(fields, dataLines, values) == values

\* the value an anonymous section returns (parser.ts 57-68)
anonymousResult(fields, dataLines, values) ==
    IF Len(fields) > 0 /\ dataLines = 1 /\ isArray(values) /\ Len(values.a) = 1
    THEN normalize(values.a[1])
    ELSE values

\* a plausible bug: the entries collected so far leak into the anonymous result
sectionStepValuesLeak(idx, res, sec, values) ==
    IF ~values.ok THEN Outcome("throw", "error", idx, res, VNull, values.err)
    ELSE IF ~sec.keyNull
    THEN Outcome("named", "scan", idx + sec.dataLines + 1,
                 objSet(res, sec.key, toNative(values.val)), VNull, NoErr)
    ELSE Outcome("anonymous", "done", idx, res,
                 IF res = EmptyObj
                 THEN anonymousResult(sec.fields, sec.dataLines, values.val)
                 ELSE objSet(res, <<>>, toNative(values.val)), NoErr)

\* parser.ts 50-69, with the section's header parsed and its data lines read
sectionStepValues(idx, res, sec, values) ==
    IF ~values.ok THEN Outcome("throw", "error", idx, res, VNull, values.err)
    ELSE IF ~sec.keyNull
    THEN Outcome("named", "scan", idx + sec.dataLines + 1,
                 objSet(res, sec.key, toNative(values.val)), VNull, NoErr)
    ELSE Outcome("anonymous", "done", idx, res,
                 anonymousResult(sec.fields, sec.dataLines, values.val), NoErr)

sectionStep(ls, idx, res, sec) ==
    IF ~sec.ok THEN Outcome("throw", "error", idx, res, VNull, sec.err)
    ELSE sectionStepValues(idx, res, sec.val,
                           parseDataLines(ls, idx + 1, sec.val.fields, sec.val.dataLines))

\* a plausible bug: a blank line or comment does not advance the cursor
scanLineNoAdvance(ls, idx, res, line) ==
    IF isSkipped(line) THEN Outcome("skip", "scan", idx, res, VNull, NoErr)
    ELSE IF includes(line, ":") THEN sectionStep(ls, idx, res, parseSection(ls, idx))
    ELSE Outcome("noColon", "scan", idx + 1, res, VNull, NoErr)

scanLine(ls, idx, res, line) ==
    IF isSkipped(line) THEN Outcome("skip", "scan", idx + 1, res, VNull, NoErr)
    ELSE IF includes(line, ":") THEN sectionStep(ls, idx, res, parseSection(ls, idx))
    ELSE Outcome("noColon", "scan", idx + 1, res, VNull, NoErr)

scanStep(ls, idx, res) ==
    IF idx >= Len(ls)
    THEN Outcome("return", "done", idx, res, createOrtValue(res), NoErr)
    ELSE scanLine(ls, idx, res, trim(lineAt(ls, idx)))

RECURSIVE parseLoop(_, _, _)
parseLoopWith(ls, st) ==
    IF st.pc = "scan" THEN parseLoop(ls, st.lineIdx, st.result) ELSE st

parseLoop(ls, idx, res) == parseLoopWith(ls, scanStep(ls, idx, res))

\* parseOrt(content): the outcome of the whole call
parseOrt(content) == parseLoop(splitOn(content, "\n"), 0, EmptyObj)

-----------------------------------------------------------------------------
(* The generator (value.ts, from "ORT Generator for TypeScript" on).  It    *)
(* works on native values, which have the representation of _value.        *)

\* item[k]: undefined (no such key) is treated like null wherever it is read
member(obj, key) == IF hasKey(obj, key) THEN objGet(obj, key) ELSE VNull

\* typeof v === 'object' && v !== null && !Array.isArray(v)
isPlainObject(v) == v.t = "obj"

\* Object.keys(o).sort(), compared through JSON.stringify: equal exactly when the
\* two objects have the same set of keys
sortedKeys(o) == {o.k[i] : i \in 1..Len(o.k)}

isUniformObjectArray(xs) ==
    /\ Len(xs) # 0
    /\ isPlainObject(xs[1])
    /\ \A i \in 2..Len(xs) : isPlainObject(xs[i]) /\ sortedKeys(xs[i]) = sortedKeys(xs[1])

RECURSIVE generateValue(_, _)
RECURSIVE generateArrayContent(_, _)
RECURSIVE generateInlineObject(_)
RECURSIVE generateObjectFieldValue(_, _, _, _)
RECURSIVE generateHeaderFields(_, _)

generateInlineObject(obj) ==
    <<"(">> \o join([i \in 1..Len(obj.k) |->
                        obj.k[i] \o <<":">> \o generateValue(obj.a[i], TRUE)], <<",">>)
            \o <<")">>

generateArrayContent(xs, inline) ==
    IF Len(xs) = 0 THEN <<"[", "]">>
    ELSE IF inline
    THEN join([i \in 1..Len(xs) |-> generateValue(xs[i], inline)], <<",">>)
    ELSE <<"[">> \o join([i \in 1..Len(xs) |-> generateValue(xs[i], inline)], <<",">>)
                 \o <<"]">>

generateValue(value, inline) ==
    IF value.t = "null" THEN <<>>
    ELSE IF value.t = "bool"
    THEN (IF value.b THEN <<"t", "r", "u", "e">> ELSE <<"f", "a", "l", "s", "e">>)
    ELSE IF value.t = "num" THEN String(value.n)
    ELSE IF value.t = "str" THEN escape(value.s)
    ELSE IF value.t = "arr"
    THEN (IF Len(value.a) = 0 THEN <<"[", "]">>
          ELSE <<"[">> \o generateArrayContent(value.a, TRUE) \o <<"]">>)
    ELSE IF Len(value.k) = 0 THEN <<"(", ")">>
    ELSE generateInlineObject(value)

\* a cell of a row: a nested object gives its own values, in its own key order
generateObjectFieldValue(value, keys, currentKey, parent) ==
    IF value.t = "null" THEN <<>>
    ELSE IF value.t = "obj"
    THEN (IF Len(value.k) = 0 THEN <<"(", ")">>
          ELSE <<"(">> \o join([i \in 1..Len(value.k) |->
                                   generateObjectFieldValue(value.a[i], value.k,
                                                            value.k[i], value)], <<",">>)
                       \o <<")">>)
    ELSE IF value.t = "arr"
    THEN (IF Len(value.a) = 0 THEN <<"[", "]">>
          ELSE <<"[">> \o generateArrayContent(value.a, TRUE) \o <<"]">>)
    ELSE generateValue(value, TRUE)

\* one entry of headerParts
headerPart(k, value) ==
    IF isPlainObject(value)
    THEN k \o <<"(">> \o generateHeaderFields(value.k, value) \o <<")">>
    ELSE k

generateHeaderFields(keys, obj) ==
    join([i \in 1..Len(keys) |-> headerPart(keys[i], member(obj, keys[i]))], <<",">>)

generateHeader(keys, firstObj) ==
    join([i \in 1..Len(keys) |-> headerPart(keys[i], member(firstObj, keys[i]))], <<",">>)
        \o <<":">>

\* keys.map(k => generateObjectFieldValue(item[k], keys, k, item)).join(',')
rowValues(item, keys) ==
    join([i \in 1..Len(keys) |->
             generateObjectFieldValue(member(item, keys[i]), keys, keys[i], item)], <<",">>)

generateObjectArray(key, xs) ==
    IF Len(xs) = 0 THEN key \o <<":", "\n", "[", "]">>
    ELSE join(<<key \o <<":">> \o generateHeader(xs[1].k, xs[1])>>
                  \o [i \in 1..Len(xs) |-> rowValues(xs[i], xs[1].k)], <<"\n">>)

generateTopLevelObjectArray(xs) ==
    IF Len(xs) = 0 THEN <<":", "[", "]">>
    ELSE join(<<<<":">> \o generateHeader(xs[1].k, xs[1])>>
                  \o [i \in 1..Len(xs) |-> rowValues(xs[i], xs[1].k)], <<"\n">>)

generateSimpleArray(key, xs) == key \o <<":", "\n">> \o generateArrayContent(xs, FALSE)

\* arr.map(v => v.toNative()) of new OrtValue(val).asArray()
arrList(v) == [i \in 1..Len(v.a) |-> toNative(normalize(v.a[i]))]

\* what generateMultiObject pushes for one entry, before the separator
multiEntry(key, v) ==
    IF isArray(v)
    THEN (IF Len(v.a) = 0 THEN key \o <<":", "\n", "[", "]">>
          ELSE IF isUniformObjectArray(arrList(v))
          THEN trimEnd(generateObjectArray(key, arrList(v)))
          ELSE trimEnd(generateSimpleArray(key, arrList(v))))
    ELSE key \o <<":", "\n">> \o generateValue(v, FALSE)

generateMultiObject(obj) ==
    concat([i \in 1..Len(obj.k) |->
               multiEntry(obj.k[i], normalize(obj.a[i]))
                   \o (IF i < Len(obj.k) THEN <<"\n", "\n">> ELSE <<"\n">>)])

\* generateOrt for an object with exactly one key
generateSingleKey(key, v) ==
    IF isArray(v)
    THEN (IF Len(v.a) = 0 THEN key \o <<":", "\n", "[", "]">>
          ELSE IF isUniformObjectArray(arrList(v))
          THEN generateObjectArray(key, arrList(v))
          ELSE generateSimpleArray(key, arrList(v)))
    ELSE key \o <<":", "\n">> \o generateValue(v, FALSE)

\* generateOrt for an object, given value.toNative()
generateObject(objNative) ==
    IF Len(objNative.k) > 1 \/ Len(objNative.k) = 0 THEN generateMultiObject(objNative)
    ELSE generateSingleKey(objNative.k[1], normalize(objNative.a[1]))

\* generateOrt(value), value being the _value of the OrtValue
generateOrt(value) ==
    IF isObject(value) THEN generateObject(toNative(value))
    ELSE IF isArray(value)
    THEN (IF isUniformObjectArray(arrList(value))
          THEN generateTopLevelObjectArray(arrList(value))
          ELSE <<":">> \o generateArrayContent(arrList(value), FALSE))
    ELSE generateValue(toNative(value), FALSE)

\* index.ts
generate(value) == generateOrt(createOrtValue(value))

parse(content) == parseOrt(content)

-----------------------------------------------------------------------------
(* The parser as a state machine over a document of up to MaxLines lines   *)
(* drawn from LinePool:                                                    *)
\*   ''             a blank line
\*   '#c'           a comment
\*   ':a,b:'        an anonymous header
\*   'k:a,b:'       a named tabular header
\*   'k:'           a named single-value header
\*   '1,2'          a row of two values
\*   '1'            a row of one value
\*   ' x,y,z '      a padded row of three values
\*   'a:b'          a colon, but no header
\*   'k:a,p(x,y):'  a header with a nested group
\*   '1,(2,3)'      a row with a nested tuple of two
\*   '1,(2)'        a row with a nested tuple of one
\*   ' q:a): '      a padded header with an unmatched ')'

LinePool ==
    { <<>>,
      <<"#", "c">>,
      <<":", "a", ",", "b", ":">>,
      <<"k", ":", "a", ",", "b", ":">>,
      <<"k", ":">>,
      <<"1", ",", "2">>,
      <<"1">>,
      <<" ", "x", ",", "y", ",", "z", " ">>,
      <<"a", ":", "b">>,
      <<"k", ":", "a", ",", "p", "(", "x", ",", "y", ")", ":">>,
      <<"1", ",", "(", "2", ",", "3", ")">>,
      <<"1", ",", "(", "2", ")">>,
      <<" ", "q", ":", "a", ")", ":", " ">> }

\* content.split('\n') always yields at least one line
Documents(n) == [1..n -> LinePool]

\* no get or set has been called; parse has not been called
IdleCall ==
    [op |-> "none", key |-> [t |-> "number", s |-> <<>>, n |-> 0], cls |-> "none",
     arg |-> VNull, msg |-> "none", res |-> VNull]

IdleParse == [ok |-> FALSE, val |-> VNull, err |-> NoErr]

\* no OrtValue has been constructed
IdleHeap == heap = <<>> /\ handles = <<>> /\ receiver = 0

IdleValue == val = VNull /\ out = IdleCall

IdleText ==
    /\ str = <<>> /\ esc = <<>> /\ unesc = <<>> /\ tpc = "idle"
    /\ parts = <<>> /\ arr = VNull /\ pairList = <<>>

IdleCodec ==
    /\ v0 = VNull /\ text = <<>> /\ parsed = IdleParse /\ regen = <<>> /\ phase = "idle"

IdleParser ==
    /\ lines = <<>> /\ lineIdx = 0 /\ result = EmptyObj
    /\ pc = "idle" /\ ret = VNull /\ err = NoErr

others == <<heap, handles, receiver, val, out, str, esc, unesc, tpc, parts, arr, pairList, v0, text, parsed, regen, phase>>

Init ==
    /\ \E n \in 1..MaxLines : lines \in Documents(n)
    /\ lineIdx = 0
    /\ result = EmptyObj
    /\ pc = "scan"
    /\ ret = VNull
    /\ err = NoErr
    /\ IdleValue /\ IdleText /\ IdleCodec /\ IdleHeap

\* the assignments of one iteration whose outcome is st
Take(st) ==
    /\ pc' = st.pc
    /\ lineIdx' = st.lineIdx
    /\ result' = st.result
    /\ ret' = st.ret
    /\ err' = st.err
    /\ UNCHANGED <<lines, others>>

\* a blank line or a comment: lineIdx++ (parser.ts 41-44)
SkipLine ==
    /\ pc = "scan"
    /\ \E st \in {scanStep(lines, lineIdx, result)} : st.kind = "skip" /\ Take(st)

\* a line without a colon: lineIdx++ (parser.ts 70-72)
SkipNoColon ==
    /\ pc = "scan"
    /\ \E st \in {scanStep(lines, lineIdx, result)} : st.kind = "noColon" /\ Take(st)

\* key:fields: the section's value is stored under key (parser.ts 50-54)
NamedSection ==
    /\ pc = "scan"
    /\ \E st \in {scanStep(lines, lineIdx, result)} : st.kind = "named" /\ Take(st)

\* :fields: the section's value is returned (parser.ts 55-69)
AnonymousSection ==
    /\ pc = "scan"
    /\ \E st \in {scanStep(lines, lineIdx, result)} : st.kind = "anonymous" /\ Take(st)

\* parseSection or parseDataLines throws
SectionThrows ==
    /\ pc = "scan"
    /\ \E st \in {scanStep(lines, lineIdx, result)} : st.kind = "throw" /\ Take(st)

\* the loop ends: return createOrtValue(result) (parser.ts 75)
ReturnResult ==
    /\ pc = "scan"
    /\ \E st \in {scanStep(lines, lineIdx, result)} : st.kind = "return" /\ Take(st)

Next ==
    \/ SkipLine
    \/ SkipNoColon
    \/ NamedSection
    \/ AnonymousSection
    \/ SectionThrows
    \/ ReturnResult

Spec == Init /\ [][Next]_vars

-----------------------------------------------------------------------------
(* The same scan on a document that opens with the single-value header     *)
(* 'k:', followed by up to MaxLines lines drawn from SinglePool:            *)
\*   ''         a blank line
\*   '1'        a number
\*   '[1,2]'    an array
\*   'a:b'      a value with a colon
\*   ':a,b:'    an anonymous header
\*   ' q:a): '  a header with an unmatched ')'

SinglePool ==
    { <<>>,
      <<"1">>,
      <<"[", "1", ",", "2", "]">>,
      <<"a", ":", "b">>,
      <<":", "a", ",", "b", ":">>,
      <<" ", "q", ":", "a", ")", ":", " ">> }

InitSingle ==
    /\ \E n \in 1..MaxLines : \E rest \in [1..n -> SinglePool] : lines = << <<"k", ":">> >> \o rest
    /\ lineIdx = 0
    /\ result = EmptyObj
    /\ pc = "scan"
    /\ ret = VNull
    /\ err = NoErr
    /\ IdleValue /\ IdleText /\ IdleCodec /\ IdleHeap

SpecSingle == InitSingle /\ [][Next]_vars

-----------------------------------------------------------------------------
(* escape and unescape on a string of up to MaxStrLen characters *)

EscAlphabet == {"(", ")", "[", "]", ",", "\\", "\n", "\t", "\r", "n", "t", "r"}

Strings(alphabet, n) == UNION {[1..m -> alphabet] : m \in 0..n}

IdleSplit == parts = <<>> /\ arr = VNull /\ pairList = <<>>

InitEscape ==
    /\ str \in Strings(EscAlphabet, MaxStrLen)
    /\ esc = <<>> /\ unesc = <<>> /\ tpc = "start"
    /\ IdleSplit /\ IdleParser /\ IdleValue /\ IdleCodec /\ IdleHeap

Escape ==
    /\ tpc = "start"
    /\ esc' = escape(str)
    /\ tpc' = "escaped"
    /\ UNCHANGED <<heap, handles, receiver, lines, lineIdx, result, pc, ret, err, val, out, str, unesc,
                   parts, arr, pairList, v0, text, parsed, regen, phase>>

Unescape ==
    /\ tpc = "escaped"
    /\ unesc' = unescape(esc)
    /\ tpc' = "unescaped"
    /\ UNCHANGED <<heap, handles, receiver, lines, lineIdx, result, pc, ret, err, val, out, str, esc,
                   parts, arr, pairList, v0, text, parsed, regen, phase>>

NextEscape == Escape \/ Unescape

SpecEscape == InitEscape /\ [][NextEscape]_vars

-----------------------------------------------------------------------------
(* The three splitting loops on a text of up to MaxSplitLen characters *)

SplitAlphabet == {"(", ")", "[", "]", ",", "\\", "a", " "}

InitSplit ==
    /\ str \in Strings(SplitAlphabet, MaxSplitLen)
    /\ esc = <<>> /\ unesc = <<>> /\ tpc = "start"
    /\ IdleSplit /\ IdleParser /\ IdleValue /\ IdleCodec /\ IdleHeap

\* parseDataValues(str, 1)
SplitValues ==
    /\ tpc = "start"
    /\ parts' = parseDataValues(str, 1)
    /\ tpc' = "values"
    /\ UNCHANGED <<heap, handles, receiver, lines, lineIdx, result, pc, ret, err, val, out, str, esc, unesc,
                   arr, pairList, v0, text, parsed, regen, phase>>

\* parseArray(str, str, 1): str is the text between '[' and ']'
SplitArray ==
    /\ tpc = "values"
    /\ arr' = parseArray(str, str, 1)
    /\ tpc' = "array"
    /\ UNCHANGED <<heap, handles, receiver, lines, lineIdx, result, pc, ret, err, val, out, str, esc, unesc,
                   parts, pairList, v0, text, parsed, regen, phase>>

\* splitPairs(str): str is the text between '(' and ')'
SplitPairs ==
    /\ tpc = "array"
    /\ pairList' = splitPairs(str)
    /\ tpc' = "pairs"
    /\ UNCHANGED <<heap, handles, receiver, lines, lineIdx, result, pc, ret, err, val, out, str, esc, unesc,
                   parts, arr, v0, text, parsed, regen, phase>>

NextSplit == SplitValues \/ SplitArray \/ SplitPairs

SpecSplit == InitSplit /\ [][NextSplit]_vars

-----------------------------------------------------------------------------
(* get and set on one OrtValue.  val is its _value, out the last call and   *)
(* its outcome.  Numeric keys are integers from -1 to MaxIndex.             *)

KeyPool == { <<"a">>, <<"b">>, <<"1">>, <<"t", "o", "S", "t", "r", "i", "n", "g">> }

ArgPool == {KeyStr(s) : s \in KeyPool} \cup {KeyNum(n) : n \in (0 - 1)..MaxIndex}

\* the values an OrtValue is constructed from
ValuePool ==
    { VNull, VNum(1), VStr(<<"a">>), VArr(<<>>), VArr(<<VNum(1)>>),
      VArr(<<VNum(1), VStr(<<"x">>)>>), EmptyObj, VObj(<< <<"a">> >>, <<VNum(1)>>),
      VObj(<< <<"b">>, <<"a">> >>, <<VNull, VArr(<<VNum(1)>>)>>) }

\* the values set is given
PayloadPool == { VNull, VNum(2), VObj(<< <<"b">> >>, <<VArr(<<>>)>>) }

Called(op, key, value, o) ==
    [op |-> op, key |-> key, cls |-> o.cls, arg |-> value, msg |-> o.msg, res |-> o.res]

InitValue ==
    /\ \E v \in ValuePool : val = createOrtValue(v)
    /\ out = IdleCall
    /\ IdleParser /\ IdleText /\ IdleCodec /\ IdleHeap

Get ==
    \E key \in ArgPool :
        \E o \in {get(val, key)} :
            /\ out' = Called("get", key, VNull, o)
            /\ val' = o.after
            /\ UNCHANGED <<heap, handles, receiver, lines, lineIdx, result, pc, ret, err, str, esc, unesc, tpc,
                           parts, arr, pairList, v0, text, parsed, regen, phase>>

Set ==
    \E key \in ArgPool, value \in PayloadPool :
        \E o \in {set(val, key, value)} :
            /\ out' = Called("set", key, value, o)
            /\ val' = o.after
            /\ UNCHANGED <<heap, handles, receiver, lines, lineIdx, result, pc, ret, err, str, esc, unesc, tpc,
                           parts, arr, pairList, v0, text, parsed, regen, phase>>

GetOrDefault ==
    \E key \in KeyPool, defaultValue \in PayloadPool :
        \E o \in {getOrDefault(val, key, defaultValue)} :
            /\ out' = Called("getOrDefault", KeyStr(key), defaultValue, o)
            /\ val' = o.after
            /\ UNCHANGED <<heap, handles, receiver, lines, lineIdx, result, pc, ret, err, str, esc, unesc, tpc,
                           parts, arr, pairList, v0, text, parsed, regen, phase>>

\* the values equals is given: the pools, and values with the same content in
\* another order
EqualsPool ==
    ValuePool \cup PayloadPool \cup
    { VArr(<<VStr(<<"x">>), VNum(1)>>),
      VObj(<< <<"a">>, <<"b">> >>, <<VArr(<<VNum(1)>>), VNull>>),
      VObj(<< <<"a">>, <<"b">> >>, <<VNum(2), VNum(2)>>),
      VObj(<< <<"b">>, <<"a">> >>, <<VNum(2), VNum(2)>>),
      VObj(<< <<"a">>, <<"b">> >>, <<VNum(2), VObj(<< <<"b">> >>, <<VArr(<<>>)>>)>>),
      VObj(<< <<"b">>, <<"a">> >>, <<VObj(<< <<"b">> >>, <<VArr(<<>>)>>), VNum(2)>>) }

Equals ==
    \E other \in EqualsPool :
        /\ out' = Called("equals", KeyNum(0), other, Returned(VBool(equals(val, other)), val))
        /\ UNCHANGED <<heap, handles, receiver, lines, lineIdx, result, pc, ret, err, val, str, esc, unesc, tpc,
                       parts, arr, pairList, v0, text, parsed, regen, phase>>

NextValue == Get \/ Set \/ GetOrDefault \/ Equals

SpecValue == InitValue /\ [][NextValue]_vars

-----------------------------------------------------------------------------
(* Several OrtValues at once.  A JS array or object is a reference: heap[n] is
   the n-th array/object allocated, its entries being scalars or Ref(m) to
   another allocated array/object, and handles[i] is the _value field of the
   i-th OrtValue constructed (a scalar or a Ref). *)

Ref(n) == [t |-> "ref", b |-> FALSE, n |-> n, s |-> <<>>, a |-> <<>>, k |-> <<>>]

\* an OrtValue instance (the i-th one constructed) occurring in native input
Instance(i) == [t |-> "ortvalue", b |-> FALSE, n |-> i, s |-> <<>>, a |-> <<>>, k |-> <<>>]

isContainer(x) == x.t \in {"arr", "obj", "ref"}

\* the array/object a native input or an internal entry denotes
containerOf(h, x) == IF x.t = "ref" THEN h[x.n] ELSE x

\* the freshly built array/object of normalize, allocated after its entries
allocate(r, t, k) ==
    [heap |-> Append(r.heap, [t |-> t, b |-> FALSE, n |-> 0, s |-> <<>>, a |-> r.a, k |-> k]),
     v |-> Ref(Len(r.heap) + 1)]

RECURSIVE normalizeRef(_, _, _)
RECURSIVE normalizeRefEntries(_, _, _, _, _)
normalizeRefNext(hs, xs, i, acc, r) ==
    normalizeRefEntries(r.heap, hs, xs, i + 1, Append(acc, r.v))

\* value.map(v => new OrtValue(v)._value) and the for-of over Object.entries
normalizeRefEntries(h, hs, xs, i, acc) ==
    IF i > Len(xs) THEN [heap |-> h, a |-> acc]
    ELSE normalizeRefNext(hs, xs, i, acc, normalizeRef(h, hs, xs[i]))

normalizeRefContainer(h, hs, c) ==
    allocate(normalizeRefEntries(h, hs, c.a, 1, <<>>), c.t, c.k)

\* new OrtValue(x)._value: a scalar is itself, an array or a plain object is
\* rebuilt entry by entry, an OrtValue instance hands over its own _value
normalizeRef(h, hs, x) ==
    IF x.t = "ortvalue" THEN [heap |-> h, v |-> hs[x.n]]
    ELSE IF isContainer(x) THEN normalizeRefContainer(h, hs, containerOf(h, x))
    ELSE [heap |-> h, v |-> x]

\* the number of arrays/objects normalize allocates for x; more than MaxCells
\* when x contains itself, where normalize does not return
RECURSIVE cellsOf(_, _, _)
RECURSIVE cellsOfEntries(_, _, _, _)
cellsOfEntries(h, xs, i, fuel) ==
    IF i > Len(xs) THEN 0
    ELSE cellsOf(h, xs[i], fuel) + cellsOfEntries(h, xs, i + 1, fuel)

cellsOf(h, x, fuel) ==
    IF ~isContainer(x) THEN 0
    ELSE IF fuel = 0 THEN MaxCells + 1
    ELSE 1 + cellsOfEntries(h, containerOf(h, x).a, 1, fuel - 1)

\* toNative() follows an array/object that contains itself without end: the
\* recursion meets more arrays/objects in a row than there are (fuel of them left)
RECURSIVE overflows(_, _, _)
overflows(h, e, fuel) ==
    /\ e.t = "ref"
    /\ \/ fuel = 0
       \/ \E i \in 1..Len(h[e.n].a) : overflows(h, h[e.n].a[i], fuel - 1)

\* the native data toNative() builds from the entry e
RECURSIVE nativeOf(_, _)
nativeOf(h, e) ==
    IF e.t # "ref" THEN e
    ELSE [h[e.n] EXCEPT !.a = [i \in 1..Len(h[e.n].a) |-> nativeOf(h, h[e.n].a[i])]]

\* toNative() of the OrtValue whose _value is e, read through the references:
\* the native data, or the RangeError thrown when the value contains itself
contentOf(h, e) ==
    IF overflows(h, e, Len(h))
    THEN [t |-> "RangeError", b |-> FALSE, n |-> 0, s |-> <<>>, a |-> <<>>, k |-> <<>>]
    ELSE nativeOf(h, e)

\* the entry get(key) / set(key, ...) addresses, 0 when the call throws
entryPos(c, key) ==
    IF key.t = "string"
    THEN IF c.t = "obj" THEN keyPos(c, key.s) ELSE 0
    ELSE IF c.t = "arr" /\ key.n >= 0 /\ key.n < Len(c.a) THEN key.n + 1 ELSE 0

AliasKeys == {KeyStr(<<"a">>), KeyNum(0)}

\* native data a caller passes: plain data, an OrtValue, or an OrtValue inside plain data
NativePool ==
    {VNum(2), VArr(<<VNum(1), VNum(2)>>),
     VObj(<< <<"a">>, <<"b">> >>, <<VArr(<<VNum(1)>>), VNum(1)>>)}
        \cup {Instance(i) : i \in 1..Len(handles)}
        \cup {VArr(<<Instance(i)>>) : i \in 1..Len(handles)}

\* normalize(x) returns (x does not contain itself) and stays within MaxCells
fits(x) ==
    Len(heap) + cellsOf(heap, x, MaxCells + 1) <= MaxCells

InitAlias ==
    /\ IdleHeap
    /\ IdleParser /\ IdleValue /\ IdleText /\ IdleCodec

ConstructWith(r) ==
    /\ heap' = r.heap
    /\ handles' = Append(handles, r.v)
    /\ receiver' = 0

\* new OrtValue(x) / createOrtValue(x)
Construct ==
    \E x \in NativePool :
        /\ Len(handles) < MaxValues
        /\ isContainer(x) \/ x.t = "ortvalue"
        /\ fits(x)
        /\ ConstructWith(normalizeRef(heap, handles, x))
        /\ UNCHANGED <<lines, lineIdx, result, pc, ret, err, val, out, str, esc, unesc, tpc,
                       parts, arr, pairList, v0, text, parsed, regen, phase>>

\* handles[i].get(key), keeping the OrtValue it returns
GetValue ==
    \E i \in 1..Len(handles), key \in AliasKeys :
        /\ Len(handles) < MaxValues
        /\ handles[i].t = "ref"
        /\ entryPos(heap[handles[i].n], key) # 0
        /\ fits(heap[handles[i].n].a[entryPos(heap[handles[i].n], key)])
        /\ ConstructWith(normalizeRef(heap, handles,
                            heap[handles[i].n].a[entryPos(heap[handles[i].n], key)]))
        /\ UNCHANGED <<lines, lineIdx, result, pc, ret, err, val, out, str, esc, unesc, tpc,
                       parts, arr, pairList, v0, text, parsed, regen, phase>>

\* the OrtValues of asArray() / asObject(): one new OrtValue(v) per entry
RECURSIVE entryValues(_, _, _, _)
entryValuesNext(hs, xs, i, r) ==
    entryValues(r.heap, Append(hs, r.v), xs, i + 1)

entryValues(h, hs, xs, i) ==
    IF i > Len(xs) THEN [heap |-> h, handles |-> hs]
    ELSE entryValuesNext(hs, xs, i, normalizeRef(h, hs, xs[i]))

AsWith(r) ==
    /\ heap' = r.heap
    /\ handles' = r.handles
    /\ receiver' = 0

\* handles[i].asArray(), keeping the OrtValues of the array it returns
AsArray ==
    \E i \in 1..Len(handles) :
        /\ handles[i].t = "ref"
        /\ heap[handles[i].n].t = "arr"
        /\ Len(handles) + Len(heap[handles[i].n].a) <= MaxValues
        \* every new OrtValue(v) returns, within MaxCells
        /\ Len(heap) + cellsOfEntries(heap, heap[handles[i].n].a, 1, MaxCells + 1) <= MaxCells
        /\ AsWith(entryValues(heap, handles, heap[handles[i].n].a, 1))
        /\ UNCHANGED <<lines, lineIdx, result, pc, ret, err, val, out, str, esc, unesc, tpc,
                       parts, arr, pairList, v0, text, parsed, regen, phase>>

\* handles[i].asObject(), keeping the OrtValues of the object it returns
AsObject ==
    \E i \in 1..Len(handles) :
        /\ handles[i].t = "ref"
        /\ heap[handles[i].n].t = "obj"
        /\ Len(handles) + Len(heap[handles[i].n].a) <= MaxValues
        \* every new OrtValue(v) returns, within MaxCells
        /\ Len(heap) + cellsOfEntries(heap, heap[handles[i].n].a, 1, MaxCells + 1) <= MaxCells
        /\ AsWith(entryValues(heap, handles, heap[handles[i].n].a, 1))
        /\ UNCHANGED <<lines, lineIdx, result, pc, ret, err, val, out, str, esc, unesc, tpc,
                       parts, arr, pairList, v0, text, parsed, regen, phase>>

SetWith(i, p, r) ==
    /\ heap' = [r.heap EXCEPT ![handles[i].n].a[p] = r.v]
    /\ receiver' = i
    /\ UNCHANGED handles

\* handles[i].set(key, x) on an entry the array/object has
SetValue ==
    \E i \in 1..Len(handles), key \in AliasKeys, x \in NativePool :
        /\ handles[i].t = "ref"
        /\ entryPos(heap[handles[i].n], key) # 0
        /\ fits(x)
        /\ SetWith(i, entryPos(heap[handles[i].n], key), normalizeRef(heap, handles, x))
        /\ UNCHANGED <<lines, lineIdx, result, pc, ret, err, val, out, str, esc, unesc, tpc,
                       parts, arr, pairList, v0, text, parsed, regen, phase>>

NextAlias == Construct \/ GetValue \/ AsArray \/ AsObject \/ SetValue

SpecAlias == InitAlias /\ [][NextAlias]_vars

-----------------------------------------------------------------------------
(* generate, parse of the generated text, and generate of the parsed value. *)
(* v0 is a native value; arrays have up to MaxArrLen elements.              *)

CodecScalars ==
    { VNull, VBool(TRUE), VNum(1), VNum(12), VStr(<<"x">>), VStr(<<"1", "2">>),
      VStr(<<"t", "r", "u", "e">>), VStr(<<"a", ":", "b">>), VStr(<<" ", "x">>),
      VStr(<<>>), VStr(<<"a", ",", "(", "\n">>) }

CodecObjects ==
    { VObj(<< <<"a">> >>, <<VNum(1)>>),
      VObj(<< <<"a">>, <<"b">> >>, <<VNum(1), VStr(<<"x">>)>>),
      VObj(<< <<"b">>, <<"a">> >>, <<VNull, VNum(2)>>),
      VObj(<< <<"a">>, <<"p">> >>,
           <<VNum(1), VObj(<< <<"x">>, <<"y">> >>, <<VNum(1), VNum(2)>>)>>),
      VObj(<< <<"a">>, <<"p">> >>,
           <<VNum(2), VObj(<< <<"y">>, <<"x">> >>, <<VNum(3), VNum(4)>>)>>),
      VObj(<< <<"a">>, <<"p">> >>, <<VArr(<<VNum(1), VNum(2)>>), EmptyObj>>),
      VObj(<< <<"a", ")">> >>, <<VNum(1)>>) }

CodecElems == {VNull, VNum(1), VStr(<<"x">>), VArr(<<VNum(1)>>)} \cup CodecObjects

CodecArrays == {VArr(xs) : xs \in UNION {[1..n -> CodecElems] : n \in 0..MaxArrLen}}

CodecMembers == CodecScalars \cup CodecObjects \cup CodecArrays

CodecValues ==
    CodecMembers
        \cup {VObj(<< <<"k">> >>, <<x>>) : x \in CodecMembers}
        \cup {VObj(<< <<"k">>, <<"m">> >>, <<x, y>>) :
                 x \in CodecObjects \cup {VNum(1), VArr(<<>>)},
                 y \in {VStr(<<"x">>), VArr(<<VNum(1), VNum(2)>>),
                        VArr(<<VObj(<< <<"a">> >>, <<VNum(1)>>),
                               VObj(<< <<"a">> >>, <<VNum(2)>>)>>)}}

InitCodec ==
    /\ v0 \in CodecValues
    /\ text = <<>> /\ parsed = IdleParse /\ regen = <<>> /\ phase = "start"
    /\ IdleParser /\ IdleValue /\ IdleText /\ IdleHeap

\* text = generate(v0)
Generate ==
    /\ phase = "start"
    /\ text' = generate(v0)
    /\ phase' = "generated"
    /\ UNCHANGED <<heap, handles, receiver, lines, lineIdx, result, pc, ret, err, val, out, str, esc, unesc, tpc,
                   parts, arr, pairList, v0, parsed, regen>>

\* parse(text) returns
ParseReturns ==
    /\ phase = "generated"
    /\ \E st \in {parse(text)} :
           /\ st.pc = "done"
           /\ parsed' = [ok |-> TRUE, val |-> st.ret, err |-> NoErr]
    /\ phase' = "parsed"
    /\ UNCHANGED <<heap, handles, receiver, lines, lineIdx, result, pc, ret, err, val, out, str, esc, unesc, tpc,
                   parts, arr, pairList, v0, text, regen>>

\* parse(text) throws
ParseThrows ==
    /\ phase = "generated"
    /\ \E st \in {parse(text)} :
           /\ st.pc = "error"
           /\ parsed' = [ok |-> FALSE, val |-> VNull, err |-> st.err]
    /\ phase' = "failed"
    /\ UNCHANGED <<heap, handles, receiver, lines, lineIdx, result, pc, ret, err, val, out, str, esc, unesc, tpc,
                   parts, arr, pairList, v0, text, regen>>

\* regen = generate(parse(text)); the parsed OrtValue is handed over as it is
Regenerate ==
    /\ phase = "parsed"
    /\ regen' = generate(parsed.val)
    /\ phase' = "regenerated"
    /\ UNCHANGED <<heap, handles, receiver, lines, lineIdx, result, pc, ret, err, val, out, str, esc, unesc, tpc,
                   parts, arr, pairList, v0, text, parsed>>

NextCodec == Generate \/ ParseReturns \/ ParseThrows \/ Regenerate

SpecCodec == InitCodec /\ [][NextCodec]_vars

-----------------------------------------------------------------------------
(* The document as the specification describes it, for stating the claims  *)

Significant(i) == ~isSkipped(trim(lineAt(lines, i)))

\* a header line: it begins with ':' or its last colon-delimited segment is empty
IsHeaderLine(i) ==
    /\ Significant(i)
    /\ \/ startsWith(trim(lineAt(lines, i)), ":")
       \/ endsWith(trim(lineAt(lines, i)), ":")

\* the index of the next header line after h, or the number of lines
SectionEnd(h) ==
    IF \E i \in (h + 1)..(Len(lines) - 1) : IsHeaderLine(i)
    THEN CHOOSE i \in (h + 1)..(Len(lines) - 1) :
             IsHeaderLine(i) /\ \A j \in (h + 1)..(i - 1) : ~IsHeaderLine(j)
    ELSE Len(lines)

RECURSIVE SignificantFrom(_, _)
SignificantFrom(i, end) ==
    IF i >= end THEN <<>>
    ELSE (IF Significant(i) THEN <<i>> ELSE <<>>) \o SignificantFrom(i + 1, end)

\* the indexes of the data lines of the section whose header is line h, in order
DataIdx(h) == SignificantFrom(h + 1, SectionEnd(h))

IsDataLineOf(h, i) == \E n \in 1..Len(DataIdx(h)) : DataIdx(h)[n] = i

\* the field list that line h declares, <<>> when it declares none
FieldsOf(h) ==
    LET sec == parseSection(lines, h) IN IF sec.ok THEN sec.val.fields ELSE <<>>

\* the first tuple, in reading order, that has another number of parts than its
\* field has sub-fields: <<expected, actual>>, or <<>> when there is none
RECURSIVE TupleMismatch(_, _)
RECURSIVE FirstMismatch(_, _, _)
TupleMismatch(f, valueStr) ==
    LET t == trim(valueStr) IN
    IF ~isNestedField(f) THEN <<>>
    ELSE IF ~(startsWith(t, "(") /\ endsWith(t, ")")) \/ t = <<"(", ")">> THEN <<>>
    ELSE LET ps == parseDataValues(SubSeq(t, 2, Len(t) - 1), 0) IN
         IF Len(ps) # Len(f.nestedFields) THEN <<Len(f.nestedFields), Len(ps)>>
         ELSE FirstMismatch(f.nestedFields, ps, 1)

FirstMismatch(fs, ps, j) ==
    IF j > Len(fs) THEN <<>>
    ELSE LET m == TupleMismatch(fs[j], ps[j]) IN
         IF Len(m) > 0 THEN m ELSE FirstMismatch(fs, ps, j + 1)

\* what is wrong with the arity of data line i under the fields fs:
\* <<message, expected, actual>>, or <<>> when nothing is
RowMismatch(i, fs) ==
    LET ps == parseDataValues(trim(lineAt(lines, i)), i + 1) IN
    IF Len(ps) # Len(fs) THEN <<"Expected values", Len(fs), Len(ps)>>
    ELSE LET m == FirstMismatch(fs, ps, 1) IN
         IF Len(m) > 0 THEN <<"Expected nested values", m[1], m[2]>> ELSE <<>>

\* the scan is at a line it takes for a header
AtHeader ==
    /\ pc = "scan"
    /\ lineIdx < Len(lines)
    /\ Significant(lineIdx)
    /\ includes(trim(lineAt(lines, lineIdx)), ":")

\* data line i is the first line of the section under the scan whose arity is wrong
FirstBadRow(i) ==
    /\ AtHeader
    /\ Len(FieldsOf(lineIdx)) > 0
    /\ IsDataLineOf(lineIdx, i)
    /\ Len(RowMismatch(i, FieldsOf(lineIdx))) > 0
    /\ \A j \in 0..(i - 1) :
           IsDataLineOf(lineIdx, j) => Len(RowMismatch(j, FieldsOf(lineIdx))) = 0

\* parse returned the value of an anonymous section (the cursor stays on its header)
AnonymousDone == pc = "done" /\ lineIdx < Len(lines)

-----------------------------------------------------------------------------
(* C4, as amended.  When the scan processes a section with a non-empty     *)
(* field list, the first data line of the section whose number of          *)
(* top-level values differs from the number of fields, or in which a       *)
(* parenthesized value other than "()" of a field with sub-fields has      *)
(* another number of parts than sub-fields, makes parse fail: the error    *)
(* states the expected and the actual count, its line number is the        *)
(* 1-based number of that line, and no result is returned.                 *)
C4_ArityEnforced ==
    [][\A i \in 0..(Len(lines) - 1) :
           FirstBadRow(i) =>
               /\ pc' = "error"
               /\ ret' = VNull
               /\ err'.lineNum = i + 1
               /\ <<err'.msg, err'.expected, err'.got>> = RowMismatch(i, FieldsOf(lineIdx))]_vars

\* the second data line of a section has one value too many and parse failed on it
C4_Witness ==
    /\ pc = "error"
    /\ err.msg = "Expected values"
    /\ err.lineNum = 3
    /\ err.expected = 2
    /\ err.got = 3

\* C4 as stated: every data line of every section with a field list whose number
\* of top-level values differs from the number of fields makes parse fail with
\* an error for that line.
C4_EveryBadRowFails ==
    pc \in {"done", "error"} =>
        \A h \in 0..(Len(lines) - 1) : \A i \in 0..(Len(lines) - 1) :
            (/\ IsHeaderLine(h)
             /\ Len(FieldsOf(h)) > 0
             /\ IsDataLineOf(h, i)
             /\ Len(parseDataValues(trim(lineAt(lines, i)), i + 1)) # Len(FieldsOf(h)))
            => (pc = "error" /\ err.lineNum = i + 1 /\ err.expected = Len(FieldsOf(h)))

-----------------------------------------------------------------------------
(* C6.  When parse returns the value of an anonymous section with a field  *)
(* list, the value is the record of the section's data line itself (an     *)
(* object) if the section has exactly one data line, and otherwise an      *)
(* array holding the record of each data line, in line order.              *)
RecordOf(i, fs) == parseRow(trim(lineAt(lines, i)), i + 1, fs).val

C6_AnonymousShape ==
    (AnonymousDone /\ Len(FieldsOf(lineIdx)) > 0) =>
        LET d == DataIdx(lineIdx)
            fs == FieldsOf(lineIdx)
        IN  IF Len(d) = 1
            THEN ret.t = "obj" /\ ret = RecordOf(d[1], fs)
            ELSE /\ ret.t = "arr"
                 /\ Len(ret.a) = Len(d)
                 /\ \A n \in 1..Len(d) : ret.a[n] = RecordOf(d[n], fs)

\* an anonymous section with one data line returned its record, unwrapped
C6_Witness ==
    /\ AnonymousDone
    /\ Len(DataIdx(lineIdx)) = 1
    /\ ret.t = "obj"
    /\ ret.k = << <<"a">>, <<"b">> >>

-----------------------------------------------------------------------------
(* C7.  When the scan reaches a line that begins with ':', the call ends   *)
(* in that step, and its outcome is the outcome of parsing that section    *)
(* alone (the header and its data lines): the lines after the section and  *)
(* the entries collected before it have no part in it.                     *)
AtAnonymousHeader == AtHeader /\ startsWith(trim(lineAt(lines, lineIdx)), ":")

SectionAlone == SubSeq(lines, lineIdx + 1, SectionEnd(lineIdx))

C7_AnonymousEndsScan ==
    [][AtAnonymousHeader =>
           LET alone == parseLoop(SectionAlone, 0, EmptyObj) IN
           /\ pc' # "scan"
           /\ pc' = alone.pc
           /\ ret' = alone.ret
           /\ <<err'.msg, err'.expected, err'.got>>
                  = <<alone.err.msg, alone.err.expected, alone.err.got>>]_vars

\* an anonymous section returned after a named section was stored, with a line
\* left after it
C7_Witness ==
    /\ AnonymousDone
    /\ result # EmptyObj
    /\ SectionEnd(lineIdx) < Len(lines)

-----------------------------------------------------------------------------
(* C8 as stated.  A document whose first line that is neither blank nor a  *)
(* comment has no colon never yields a result.                             *)
FirstLineHasNoColon ==
    \E i \in 0..(Len(lines) - 1) :
        /\ Significant(i)
        /\ \A j \in 0..(i - 1) : ~Significant(j)
        /\ ~includes(trim(lineAt(lines, i)), ":")

C8_NoColonHeaderFails == pc = "done" => ~FirstLineHasNoColon

-----------------------------------------------------------------------------
(* C9 as stated.  A parse error carries the 1-based index of the offending *)
(* line and that line's text exactly as it stands in the input.            *)
C9_ErrorCarriesRawLine ==
    pc = "error" =>
        /\ err.lineNum \in 1..Len(lines)
        /\ err.line = lines[err.lineNum]

-----------------------------------------------------------------------------
(* Round trips through the generator and the parser *)

\* the keys of an object, as a set
KeySet(o) == {o.k[i] : i \in 1..Len(o.k)}

\* Structural equality: same tag, same payload, arrays element by element,
\* objects key by key whatever the order of the keys
RECURSIVE StructEq(_, _)
StructEq(x, y) ==
    /\ x.t = y.t
    /\ x.b = y.b /\ x.n = y.n /\ x.s = y.s
    /\ x.t = "arr" => /\ Len(x.a) = Len(y.a)
                      /\ \A i \in 1..Len(x.a) : StructEq(x.a[i], y.a[i])
    /\ x.t = "obj" => /\ KeySet(x) = KeySet(y)
                      /\ \A key \in KeySet(x) : StructEq(objGet(x, key), objGet(y, key))

\* two values that are both objects have the same keys, and so have their members
RECURSIVE SameShape(_, _)
SameShape(x, y) ==
    (x.t = "obj" /\ y.t = "obj") =>
        /\ KeySet(x) = KeySet(y)
        /\ \A key \in KeySet(x) : SameShape(objGet(x, key), objGet(y, key))

\* every array of objects is uniform in keys, at every level
RECURSIVE UniformEverywhere(_)
UniformEverywhere(v) ==
    /\ v.t = "arr" => \A i, j \in 1..Len(v.a) : SameShape(v.a[i], v.a[j])
    /\ v.t \in {"arr", "obj"} => \A i \in 1..Len(v.a) : UniformEverywhere(v.a[i])

(* C1 as stated.  For a value in which every array of objects is uniform in *)
(* keys at every level, parsing the generated text returns a value that is  *)
(* structurally equal to it.                                               *)
C1_RoundTrip ==
    (phase \in {"parsed", "failed", "regenerated"} /\ UniformEverywhere(v0)) =>
        (parsed.ok /\ StructEq(parsed.val, v0))

(* C2 as stated.  Parsing the generated text and generating again gives     *)
(* the same text.                                                          *)
C2_Idempotent ==
    phase \in {"failed", "regenerated"} => (phase = "regenerated" /\ regen = text)

-----------------------------------------------------------------------------
(* Escaping *)

EscapedWithBackslash == {"(", ")", "[", "]", ",", "\\"}

\* what the escape table says a character becomes
EscapeImage(c) ==
    IF c \in EscapedWithBackslash THEN <<"\\", c>>
    ELSE IF c = "\n" THEN <<"\\", "n">>
    ELSE IF c = "\t" THEN <<"\\", "t">>
    ELSE IF c = "\r" THEN <<"\\", "r">>
    ELSE <<c>>

(* C3.  The escaped text is the string with a backslash put before each of *)
(* ( ) [ ] , and backslash, with newline, tab and carriage return written   *)
(* as backslash-n, backslash-t, backslash-r, and every other character as  *)
(* it is; and unescaping the escaped text gives the string back.           *)
C3_EscapeInverse ==
    /\ tpc \in {"escaped", "unescaped"} =>
           esc = concat([i \in 1..Len(str) |-> EscapeImage(str[i])])
    /\ tpc = "unescaped" => unesc = str

C3_Witness ==
    /\ tpc = "unescaped"
    /\ str = <<"\\", "n", "\n">>
    /\ esc = <<"\\", "\\", "n", "\\", "n">>
    /\ unesc = str

-----------------------------------------------------------------------------
(* Splitting.  Whether a character is escaped, and how deep it is nested,  *)
(* are defined here from the text alone, without the scan.                 *)

\* the number of backslashes in a row that end just before position i
BackslashRun(s, i) ==
    CHOOSE n \in 0..(i - 1) :
        /\ \A j \in (i - n)..(i - 1) : s[j] = "\\"
        /\ (i - n - 1 = 0 \/ s[i - n - 1] # "\\")

\* the character at i directly follows an unescaped backslash
EscapedAt(s, i) == BackslashRun(s, i) % 2 = 1

\* the unescaped occurrences of c before position i
Unescaped(s, i, c) == {j \in 1..(i - 1) : s[j] = c /\ ~EscapedAt(s, j)}

ParenDepthAt(s, i) == Cardinality(Unescaped(s, i, "(")) - Cardinality(Unescaped(s, i, ")"))

BracketDepthAt(s, i) == Cardinality(Unescaped(s, i, "[")) - Cardinality(Unescaped(s, i, "]"))

\* a comma that is not escaped and lies in no group
TopLevelComma(s, i) ==
    /\ s[i] = ","
    /\ ~EscapedAt(s, i)
    /\ ParenDepthAt(s, i) = 0
    /\ BracketDepthAt(s, i) = 0

TopLevelCommas(s) == {i \in 1..Len(s) : TopLevelComma(s, i)}

\* the position in the text of the separator after part k
RECURSIVE CutAfter(_, _)
CutAfter(ps, k) == IF k = 0 THEN 0 ELSE CutAfter(ps, k - 1) + Len(ps[k]) + 1

\* the text after the last top-level comma
LastPiece(s) ==
    IF TopLevelCommas(s) = {} THEN s
    ELSE SubSeq(s, 1 + (CHOOSE i \in TopLevelCommas(s) : \A j \in TopLevelCommas(s) : j <= i),
                Len(s))

\* the number of pieces kept when a last piece of white space only is dropped
KeptPieces(s) ==
    Cardinality(TopLevelCommas(s)) + (IF trim(LastPiece(s)) = <<>> THEN 0 ELSE 1)

\* the unescaped o minus the unescaped c among the characters j+1 .. m
NetBetween(s, j, m, o, c) ==
    Cardinality({x \in (j + 1)..m : s[x] = o /\ ~EscapedAt(s, x)})
        - Cardinality({x \in (j + 1)..m : s[x] = c /\ ~EscapedAt(s, x)})

\* the unescaped o at j is closed by the unescaped c at k
MatchingPair(s, j, k, o, c) ==
    /\ s[j] = o /\ ~EscapedAt(s, j)
    /\ s[k] = c /\ ~EscapedAt(s, k)
    /\ \A m \in (j + 1)..(k - 1) : NetBetween(s, j, m, o, c) >= 0
    /\ NetBetween(s, j, k - 1, o, c) = 0

\* position i lies inside a group o ... c of the text
InGroup(s, i, o, c) ==
    \E j \in 1..(i - 1), k \in (i + 1)..Len(s) : MatchingPair(s, j, k, o, c)

\* a closing c before position i that no o before it opens
UnmatchedCloserBefore(s, i, o, c) ==
    \E m \in 1..(i - 1) : NetBetween(s, 0, m, o, c) < 0

\* the positions at which the line was cut into parts
Cuts == {CutAfter(parts, k) : k \in 1..(Len(parts) - 1)}

(* C5 as stated.  The parts of a split line, joined by commas, are the    *)
(* line, and no comma that starts a new part lies inside a '(...)' group, *)
(* inside a '[...]' group, or directly after an unescaped backslash.      *)
C5_NoSplitInsideGroup ==
    tpc \in {"values", "array", "pairs"} =>
        /\ join(parts, <<",">>) = str
        /\ \A i \in Cuts :
               /\ ~EscapedAt(str, i)
               /\ ~InGroup(str, i, "(", ")")
               /\ ~InGroup(str, i, "[", "]")

(* C5.  The parts of a split line, joined by commas, are the line, and the *)
(* commas that separate them are exactly the commas of the line that are   *)
(* neither directly after an unescaped backslash nor at a non-zero paren   *)
(* or bracket depth, the depths counting unescaped brackets only.  So a    *)
(* comma after an unescaped backslash starts no part, and a comma inside   *)
(* a group starts no part unless an unmatched closing bracket of the       *)
(* group's kind precedes it.  An array body and an inline-object body are  *)
(* cut at the same commas.                                                 *)
C5_DepthAwareSplit ==
    /\ tpc \in {"values", "array", "pairs"} =>
           /\ join(parts, <<",">>) = str
           /\ Cuts = TopLevelCommas(str)
           /\ \A i \in Cuts :
                  /\ InGroup(str, i, "(", ")") => UnmatchedCloserBefore(str, i, "(", ")")
                  /\ InGroup(str, i, "[", "]") => UnmatchedCloserBefore(str, i, "[", "]")
    /\ tpc \in {"array", "pairs"} =>
           /\ arr.t = "arr"
           /\ Len(arr.a) = (IF trim(str) = <<>> THEN 0 ELSE KeptPieces(str))
    /\ tpc = "pairs" =>
           /\ Len(pairList) = KeptPieces(str)
           /\ \A k \in 1..Len(pairList) :
                  pairList[k] = (IF k = Len(parts) THEN trim(parts[k]) ELSE parts[k])

C5_Witness ==
    /\ tpc = "pairs"
    /\ str = <<"(", ",", ")", ",", "\\">>
    /\ parts = << <<"(", ",", ")">>, <<"\\">> >>
    /\ Len(arr.a) = 2
    /\ pairList = parts

-----------------------------------------------------------------------------
(* get and set *)

\* the call just made failed
Failed(o) == o.cls # "none"

(* C10 as stated.  A string key on a non-object and a number on a non-array *)
(* fail with a type error; get of a key the object lacks fails with key    *)
(* not found; an index below 0 or not below the length fails with an index *)
(* error; set leaves the length of an array as it is; set of a new key     *)
(* puts the key after the existing keys; a failed call changes nothing.    *)
C10_GetSetContract ==
    [][out'.op \in {"get", "set"} =>
       /\ (out'.key.t = "string" /\ ~isObject(val)) => out'.cls = "TypeError"
       /\ (out'.op = "get" /\ out'.key.t = "string" /\ isObject(val)
               /\ ~hasKey(val, out'.key.s)) =>
              (out'.cls = "Error" /\ out'.msg = "Key not found")
       /\ (out'.key.t = "number" /\ ~isArray(val)) => out'.cls = "TypeError"
       /\ (out'.key.t = "number" /\ isArray(val)
               /\ (out'.key.n < 0 \/ out'.key.n >= Len(val.a))) =>
              (out'.cls = "Error" /\ out'.msg = "Index out of bounds")
       /\ isArray(val) => (isArray(val') /\ Len(val'.a) = Len(val.a))
       /\ (out'.op = "set" /\ out'.key.t = "string" /\ isObject(val)
               /\ ~hasKey(val, out'.key.s)) =>
              val'.k = Append(val.k, out'.key.s)
       /\ Failed(out') => val' = val]_vars

(* C11 as stated.  getOrDefault never fails; it returns the stored value    *)
(* when the receiver is an object that has the key, also when that value   *)
(* is null, and the normalized default otherwise; the receiver is left as  *)
(* it is.                                                                  *)
C11_GetOrDefault ==
    [][out'.op = "getOrDefault" =>
       /\ ~Failed(out')
       /\ val' = val
       /\ out'.res = (IF isObject(val) /\ hasKey(val, out'.key.s)
                      THEN objGet(val, out'.key.s)
                      ELSE normalize(out'.arg))]_vars

(* C12 as stated.  equals is true exactly when the two values have the     *)
(* same structure: arrays element by element in order, objects key by key  *)
(* whatever the order of their keys, at every depth.                       *)
C12_StructuralEquals ==
    [][out'.op = "equals" => (out'.res.b <=> StructEq(val, out'.arg))]_vars

-----------------------------------------------------------------------------
(* Tabular rendering *)

\* A row, or a nested tuple, as the header declares it: one position for each
\* key of the first element's object, in that order, holding the member of that
\* name; a member that is itself a non-empty object under a nested group is the
\* tuple of its members, laid out in the same way
RECURSIVE ExpectedTuple(_, _)
ExpectedCell(value, template) ==
    IF value.t = "obj" /\ template.t = "obj" /\ Len(value.k) > 0
    THEN <<"(">> \o ExpectedTuple(value, template) \o <<")">>
    ELSE generateObjectFieldValue(value, <<>>, <<>>, value)

ExpectedTuple(item, template) ==
    join([i \in 1..Len(template.k) |->
             ExpectedCell(member(item, template.k[i]), template.a[i])], <<",">>)

\* the table of a uniform array: the header of its first element, then its rows
ExpectedTable(prefix, xs) ==
    join(<<prefix \o <<":">> \o generateHeader(xs[1].k, xs[1])>>
             \o [i \in 1..Len(xs) |-> ExpectedTuple(xs[i], xs[1])], <<"\n">>)

\* v0 is a uniform array of objects, bare or under the single key k
TableRows ==
    IF v0.t = "arr" THEN v0.a
    ELSE IF v0.t = "obj" /\ Len(v0.k) = 1 /\ v0.a[1].t = "arr" THEN v0.a[1].a
    ELSE <<>>

(* C14 as stated.  The text generated for a uniform array of objects is    *)
(* the header derived from the first element followed by one row for each  *)
(* element, and every value of a row, at every depth, stands at the        *)
(* position of its field name in that header.                              *)
C14_NameKeyedRows ==
    (phase # "start" /\ isUniformObjectArray(TableRows) /\ UniformEverywhere(v0)) =>
        text = ExpectedTable(IF v0.t = "arr" THEN <<>> ELSE v0.k[1], TableRows)

-----------------------------------------------------------------------------
(* Blank lines and comments inside a section *)

\* the index of the last data line of the section whose header is line h, or h
LastDataLine(h) == IF Len(DataIdx(h)) = 0 THEN h ELSE DataIdx(h)[Len(DataIdx(h))]

\* the document without its blank lines and comments
NotSkipped(l) == ~isSkipped(trim(l))

Stripped == SelectSeq(lines, NotSkipped)

\* every blank line or comment stands between a header and a data line of its
\* section
SkippedOnlyInsideSections ==
    \A i \in 0..(Len(lines) - 1) :
        ~Significant(i) =>
            \E h \in 0..(i - 1) : IsHeaderLine(h) /\ i < LastDataLine(h)

\* the outcome of the call, but for the line an error cites
SameOutcome(st) ==
    /\ pc' = st.pc
    /\ ret' = st.ret
    /\ <<err'.msg, err'.expected, err'.got>> = <<st.err.msg, st.err.expected, st.err.got>>

(* C15 as stated.  After a named section the scan resumes at the line      *)
(* after the section's last data line; and when blank lines and comments   *)
(* stand only between a header and the data lines of its section, the      *)
(* call ends as it does on the document without them.                      *)
C15_SectionPartition ==
    [][/\ (pc = "scan" /\ lineIdx < Len(lines) /\ IsHeaderLine(lineIdx) /\ pc' = "scan")
           => lineIdx' = LastDataLine(lineIdx) + 1
       /\ (pc' \in {"done", "error"} /\ SkippedOnlyInsideSections)
           => SameOutcome(parseLoop(Stripped, 0, EmptyObj))]_vars

-----------------------------------------------------------------------------
(* Header recognition *)

\* the scan is at a line that is neither blank nor a comment
AtSignificantLine == pc = "scan" /\ lineIdx < Len(lines) /\ Significant(lineIdx)

(* C16 as stated.  A line under the scan that is not a header line (it     *)
(* neither begins with ':' nor ends with ':') opens no section: it adds no *)
(* entry to the result and returns no value.  A header line that opens a   *)
(* named section has as its data lines the significant lines up to the     *)
(* next header line, a line such as 'a:b' among them.                      *)
C16_HeaderRecognition ==
    [][AtSignificantLine =>
       /\ ~IsHeaderLine(lineIdx) => (result' = result /\ pc' # "done")
       /\ (IsHeaderLine(lineIdx) /\ pc' = "scan")
              => lineIdx' = lineIdx + Len(DataIdx(lineIdx)) + 1]_vars

-----------------------------------------------------------------------------
(* Single-value sections *)

\* the document opens with a header that declares no fields and has a data line
SingleValueFirst ==
    /\ IsHeaderLine(0)
    /\ ~startsWith(trim(lineAt(lines, 0)), ":")
    /\ FieldsOf(0) = <<>>
    /\ Len(DataIdx(0)) >= 1

\* the document without the lines of its first section that follow the section's
\* first data line
WithoutFurtherLines ==
    SubSeq(lines, 1, DataIdx(0)[1] + 1) \o SubSeq(lines, SectionEnd(0) + 1, Len(lines))

\* the outcome st, but for the line an error cites
EndsLike(st) ==
    /\ pc = st.pc
    /\ ret = st.ret
    /\ <<err.msg, err.expected, err.got>> = <<st.err.msg, st.err.expected, st.err.got>>

(* C17 as stated.  When the document opens with a section 'key:' that has  *)
(* a data line, the call ends as it does on the document without the       *)
(* further data lines of that section; and a result returned at the end of *)
(* the document holds under key the generic parse of that first data line. *)
C17_SingleValueSection ==
    (pc \in {"done", "error"} /\ SingleValueFirst) =>
        /\ EndsLike(parseLoop(WithoutFurtherLines, 0, EmptyObj))
        /\ (pc = "done" /\ lineIdx >= Len(lines)) =>
               /\ hasKey(ret, <<"k">>)
               /\ objGet(ret, <<"k">>) =
                      toNative(parseValue(trim(lineAt(lines, DataIdx(0)[1])),
                                          trim(lineAt(lines, DataIdx(0)[1])), 0))

-----------------------------------------------------------------------------
(* Termination *)

\* the loop, started at line idx with the entries res, ends the call within n
\* iterations
RECURSIVE EndsWithin(_, _, _, _)
EndsWithin(ls, idx, res, n) ==
    /\ n > 0
    /\ LET st == scanStep(ls, idx, res) IN
           st.pc \in {"done", "error"} \/ EndsWithin(ls, st.lineIdx, st.result, n - 1)

(* C18.  Every iteration of the scan loop either ends the call, by a       *)
(* return or by a parse error, or moves the cursor forward, by 1 past a    *)
(* line it skips and by the number of the section's data lines plus 1 past *)
(* a named section, never beyond the end of the line list; and from every  *)
(* state of the scan the call ends within as many iterations as there are  *)
(* lines from the cursor on, plus one.                                     *)
C18_Terminates ==
    [][pc = "scan" =>
         /\ EndsWithin(lines, lineIdx, result, Len(lines) - lineIdx + 1)
         /\ \/ pc' \in {"done", "error"}
            \/ /\ pc' = "scan"
               /\ lineIdx' = lineIdx + (IF AtHeader THEN Len(DataIdx(lineIdx)) + 1 ELSE 1)
               /\ lineIdx' > lineIdx
               /\ lineIdx' <= Len(lines)]_vars

C18_Witness ==
    /\ pc = "done"
    /\ lineIdx = Len(lines)
    /\ lines = << <<"k", ":", "a", ",", "b", ":">>, <<"1", ",", "2">>, <<>> >>
    /\ hasKey(ret, <<"k">>)

\* C13: a set performed on one OrtValue leaves the content observed through
\* every other OrtValue as it was, whether that other OrtValue came from get,
\* asArray or asObject, was constructed from an existing OrtValue, or was
\* passed to set as the payload or inside the payload.
C13_NoAliasing ==
    [][(receiver' # 0 /\ handles' = handles) =>
          \A g \in 1..Len(handles) :
              g # receiver' =>
                  contentOf(heap', handles[g])
                      = contentOf(heap, handles[g])]_vars

====
